---- MODULE Spec2Model ----
(***************************************************************************)
(* The PayPal payment pipeline of server/paymentProviders/paypal/payment.js *)
(* as a state machine: credential lookup, OAuth token exchange, gateway     *)
(* POST, ledger Transaction construction and the two settlement marks.      *)
(*                                                                          *)
(* Every `await` of the source is a suspension point and therefore one     *)
(* action; synchronous code between two awaits belongs to the action of    *)
(* the await that follows it.  Pipelines (async invocations of processOrder *)
(* or createPayment) are the elements of Procs.                            *)
(*                                                                          *)
(* The account mutations editAccountSetting and addAccountTwoFactorAuth of  *)
(* the GraphQL v2 API are a second state machine over their own rows.       *)
(***************************************************************************)
EXTENDS Integers, Sequences, FiniteSets, TLC

VARIABLES
  connectedAccounts,  \* ConnectedAccounts rows of the host collective
  order,              \* the Order row (immutable columns)
  processedAt,        \* Order.processedAt, Null until marked
  confirmedAt,        \* PaymentMethod.confirmedAt, Null until marked
  transactions,       \* Transactions table: records in creation order
  clock,              \* value the next `new Date()` returns
  runs,               \* number of pipelines started so far
  captures,           \* 2xx answers the provider gave to execute requests
  pc,                 \* per pipeline: the await it is suspended at
  op,                 \* per pipeline: the entry point that started it
  req,                \* per pipeline: req.body of createPayment
  token,              \* per pipeline: result of retrieveOAuthToken
  response,           \* per pipeline: last gateway response (fetch result)
  paymentInfo,        \* per pipeline: value paypalRequest returned
  built,              \* per pipeline: payload.transaction given to createFromPayload
  outcome,            \* per pipeline: returned value / thrown error
  logged,             \* per pipeline: errorData handed to logger.error
  sent,               \* per pipeline: outbound HTTP requests of this run
  trace,              \* per pipeline: steps of this run with their result
  created,            \* per pipeline: Transactions this run persisted
  startedProcessed,   \* per pipeline: processedAt was set when the run began
  accountSettings,    \* Account.settings of the account the mutations address
  twoFactorAuthToken, \* User.twoFactorAuthToken of the account's creator
  rowLock,            \* the call whose transaction holds the account row's lock, or 0
  localSettings,      \* per call: `settings` of editAccountSetting
  settingsAtStart,    \* Account.settings before any call
  updates             \* the account.update calls executed, in order

vars == << connectedAccounts, order, processedAt, confirmedAt, transactions,
           clock, runs, captures, pc, op, req, token, response, paymentInfo,
           built, outcome, logged, sent, trace, created, startedProcessed,
           accountSettings, twoFactorAuthToken, rowLock, localSettings,
           settingsAtStart, updates >>

dbVars == << connectedAccounts, order, processedAt, confirmedAt, transactions, clock >>

accountVars == << accountSettings, twoFactorAuthToken, rowLock, localSettings,
                  settingsAtStart, updates >>

-----------------------------------------------------------------------------
(* Bounds *)

\* pipelines started in one behaviour
MaxRuns == 2

\* the pipelines that may be in flight at the same time
Procs == {1, 2}

\* null of a string column, null of a date column, undefined, "no value yet"
Null == "null"
NullDate == [null |-> TRUE]
Undefined == "undefined"
None == [none |-> TRUE]

\* a Date
Date(n) == [time |-> n]

-----------------------------------------------------------------------------
(* Decimal strings and arithmetic.  A decimal string is a sequence of     *)
(* one-character strings.  A JavaScript number with at most three          *)
(* fraction digits is held as an integer count of thousandths.             *)

DigitVal == ("0" :> 0) @@ ("1" :> 1) @@ ("2" :> 2) @@ ("3" :> 3) @@ ("4" :> 4) @@
            ("5" :> 5) @@ ("6" :> 6) @@ ("7" :> 7) @@ ("8" :> 8) @@ ("9" :> 9)

IsDigitAt(s, i) == i <= Len(s) /\ s[i] \in DOMAIN DigitVal

RECURSIVE ParseDigits(_, _, _)
\* <<value of the digit run starting at s[i], index after it>>
ParseDigits(s, i, acc) ==
  IF IsDigitAt(s, i) THEN ParseDigits(s, i + 1, acc * 10 + DigitVal[s[i]])
  ELSE << acc, i >>

\* thousandths denoted by up to three fraction digits starting at s[i]
FracMilli(s, i) ==
  (IF IsDigitAt(s, i) THEN 100 * DigitVal[s[i]] ELSE 0)
  + (IF IsDigitAt(s, i) /\ IsDigitAt(s, i + 1) THEN 10 * DigitVal[s[i + 1]] ELSE 0)
  + (IF IsDigitAt(s, i) /\ IsDigitAt(s, i + 1) /\ IsDigitAt(s, i + 2)
       THEN DigitVal[s[i + 2]] ELSE 0)

\* parseFloat on a decimal string: [-]digits[.digits], in thousandths
ParseFloat(s) ==
  LET neg == Len(s) >= 1 /\ s[1] = "-"
      ip == ParseDigits(s, IF neg THEN 2 ELSE 1, 0)
      frac == IF ip[2] <= Len(s) /\ s[ip[2]] = "." THEN FracMilli(s, ip[2] + 1) ELSE 0
      mag == ip[1] * 1000 + frac
  IN IF neg THEN 0 - mag ELSE mag

\* Math.round(y) = floor(y + 1/2), for y = n / d with d > 0
MathRound(n, d) == (2 * n + d) \div (2 * d)

\* lib/math floatAmountToCents: Math.round(floatAmount * 100)
FloatAmountToCents(milli) == MathRound(milli, 10)

\* lib/payments calcFee: Math.round((amount * fee) / 100)
CalcFee(amount, fee) == MathRound(amount * fee, 100)

\* lib/payments getPlatformFee: the Order's fee policy, waived when fees are on top
GetPlatformFee(o) ==
  IF o.isFeesOnTop THEN 0 ELSE CalcFee(o.totalAmount, o.platformFeePercent)

RECURSIVE Get(_, _, _)
\* lodash get(object, path, default): path steps are [key |-> k] or [index |-> i]
Get(obj, path, default) ==
  IF path = << >> THEN obj
  ELSE LET h == Head(path) IN
       IF "index" \in DOMAIN h
         THEN IF h.index + 1 <= Len(obj)
                THEN Get(obj[h.index + 1], Tail(path), default) ELSE default
         ELSE IF h.key \in DOMAIN obj
                THEN Get(obj[h.key], Tail(path), default) ELSE default

\* the fee path read from the second related resource
FeePathOfSecondResource ==
  << [key |-> "related_resources"], [index |-> 1], [key |-> "sale"],
     [key |-> "transaction_fee"], [key |-> "value"] >>

FeePath == << [key |-> "related_resources"], [index |-> 0], [key |-> "sale"],
              [key |-> "transaction_fee"], [key |-> "value"] >>

-----------------------------------------------------------------------------
(* Inputs *)

\* decimal strings the provider may send as amount.total
Totals == { << "1", "0", ".", "0", "0" >>, << "0", ".", "0", "0" >>,
            << "1", "2", ".", "3", "4" >>, << "-", "5", ".", "0", "0" >>,
            << "0", ".", "0", "0", "4" >>, << "1", "0", ".", "5" >>,
            << "1", "0" >>, << "1", "9", ".", "9", "9" >> }

FeeString == << "0", ".", "5", "9" >>
NegFeeString == << "-", "0", ".", "5", "9" >>

Amount(total) == [total |-> total, currency |-> "USD"]

\* first line item of a capture payload, with every shape of the optional fee path
LineItems(total) ==
  { [amount |-> Amount(total)],
    [amount |-> Amount(total), related_resources |-> << >>],
    [amount |-> Amount(total), related_resources |-> << [refund |-> [id |-> "R"]] >>],
    [amount |-> Amount(total), related_resources |-> << [sale |-> [id |-> "S"]] >>],
    [amount |-> Amount(total),
     related_resources |-> << [sale |-> [transaction_fee |-> [currency |-> "USD"]]] >>],
    [amount |-> Amount(total),
     related_resources |-> << [sale |-> [transaction_fee |-> [value |-> FeeString]]] >>],
    [amount |-> Amount(total),
     related_resources |-> << [sale |-> [transaction_fee |-> [value |-> NegFeeString]]] >> ] }

\* capture payloads of the execute endpoint
CapturePayloads ==
  { [id |-> "PAY-1", transactions |-> << t >>] : t \in UNION { LineItems(s) : s \in Totals } }

\* the payloads the concurrent pipelines are run with
PipelinePayloads ==
  { [id |-> "PAY-1", transactions |-> << [amount |-> Amount(s)] >>] :
      s \in { << "1", "0", ".", "0", "0" >>, << "0", ".", "0", "0" >> } }

Orders ==
  [ id : {1}, totalAmount : {1000, 1234, 1}, currency : {"USD"},
    hostFeePercent : {5, 0}, platformFeePercent : {5}, isFeesOnTop : BOOLEAN,
    paymentID : {"PAY-1"}, payerID : {"PAYER-1"} ]

PipelineOrders ==
  { o \in Orders : o.totalAmount = 1000 /\ o.hostFeePercent = 5 /\ ~o.isFeesOnTop }

Account(id, service, createdAt, deleted, clientId, tok) ==
  [ id |-> id, service |-> service, createdAt |-> createdAt,
    deletedAt |-> IF deleted THEN Date(createdAt + 1) ELSE NullDate,
    clientId |-> IF clientId THEN "client" ELSE Null,
    token |-> IF tok THEN "secret" ELSE Null ]

\* ConnectedAccounts tables of the host
CredentialConfigs ==
  { << >>,
    << Account(1, "paypal", 1, FALSE, TRUE, TRUE) >>,
    << Account(1, "paypal", 1, TRUE, TRUE, TRUE) >>,
    << Account(1, "stripe", 1, FALSE, TRUE, TRUE) >>,
    << Account(1, "paypal", 1, FALSE, FALSE, TRUE) >>,
    << Account(1, "paypal", 1, FALSE, TRUE, TRUE), Account(2, "paypal", 2, FALSE, TRUE, FALSE) >>,
    << Account(1, "paypal", 1, FALSE, TRUE, TRUE), Account(2, "paypal", 2, TRUE, TRUE, TRUE) >>,
    << Account(1, "paypal", 1, FALSE, TRUE, TRUE), Account(2, "paypal", 2, FALSE, TRUE, TRUE) >>,
    << Account(2, "paypal", 2, FALSE, TRUE, TRUE), Account(1, "paypal", 1, FALSE, TRUE, TRUE) >> }

\* req.body of createPayment
CreateRequests ==
  [ amount : {Undefined, "10.00"}, currency : {Undefined, "USD"},
    hostId : {"host", "nohost"} ]

-----------------------------------------------------------------------------
(* Pure parts of the source *)

RECURSIVE SortAscending(_)
\* the rows ordered by createdAt, oldest first
SortAscending(rows) ==
  IF rows = << >> THEN << >>
  ELSE LET i == CHOOSE k \in 1..Len(rows) :
                  \A j \in 1..Len(rows) : rows[j].createdAt >= rows[k].createdAt
       IN << rows[i] >> \o SortAscending(SubSeq(rows, 1, i - 1) \o SubSeq(rows, i + 1, Len(rows)))

RECURSIVE SortDesc(_)
\* order: [['createdAt', 'DESC']]
SortDesc(rows) ==
  IF rows = << >> THEN << >>
  ELSE LET i == CHOOSE k \in 1..Len(rows) :
                  \A j \in 1..Len(rows) : rows[j].createdAt <= rows[k].createdAt
       IN << rows[i] >> \o SortDesc(SubSeq(rows, 1, i - 1) \o SubSeq(rows, i + 1, Len(rows)))

IsActivePaypal(a) == a.service = "paypal" /\ a.deletedAt = NullDate

\* hostCollective.getConnectedAccounts({where: {service: 'paypal', deletedAt: null}, order: ...})
GetConnectedAccounts(rows) == SortDesc(SelectSeq(rows, IsActivePaypal))

\* the credential check without its field tests
UnsupportedWhenAbsent(found) == found = << >>

\* !paypal || !paypal.clientId || !paypal.token
Unsupported(found) ==
  found = << >> \/ found[1].clientId = Null \/ found[1].token = Null

\* retrieveOAuthToken's return value for a response whose body is JSON
AccessToken(body) == IF "access_token" \in DOMAIN body THEN body.access_token ELSE Undefined

\* createPayment's paymentParams
PaymentParams(body) ==
  [ intent |-> "sale", payer |-> [payment_method |-> "paypal"],
    transactions |-> << [amount |-> [total |-> body.amount, currency |-> body.currency]] >>,
    redirect_urls |-> [return_url |-> "https://opencollective.com",
                       cancel_url |-> "https://opencollective.com"] ]

\* the POST paypalRequest is called with, by entry point
GatewayCall(p) ==
  IF op[p] = "createPayment"
    THEN [path |-> << "payments/payment" >>, body |-> PaymentParams(req[p])]
    ELSE [path |-> << "payments/payment/", order.paymentID, "/execute" >>,
          body |-> [payer_id |-> order.payerID]]

\* retrieveOAuthToken's request: Basic auth from clientId:clientSecret of the credential
TokenRequest(paypal) ==
  [ kind |-> "token", path |-> << "oauth2/token" >>, account |-> paypal.id,
    basic |-> << paypal.clientId, ":", paypal.token >> ]

\* paypalRequest's POST: JSON body and Bearer token
PostRequest(p, bearer) ==
  [ kind |-> "post", path |-> GatewayCall(p).path, bearer |-> bearer,
    body |-> GatewayCall(p).body ]

\* payload.transaction with the FX rate taken the other way round
BuildTransactionInvertedRate(o, info) ==
  LET transaction == info.transactions[1]
      amountFromPayPalInCents == FloatAmountToCents(ParseFloat(transaction.amount.total))
      paypalFee == ParseFloat(Get(transaction, FeePath, << "0", ".", "0" >>))
  IN [ type |-> "CREDIT",
       OrderId |-> o.id,
       amount |-> o.totalAmount,
       currency |-> o.currency,
       hostCurrency |-> transaction.amount.currency,
       amountInHostCurrency |-> amountFromPayPalInCents,
       hostCurrencyFxRate |-> [num |-> amountFromPayPalInCents, den |-> o.totalAmount],
       hostFeeInHostCurrency |-> CalcFee(amountFromPayPalInCents, o.hostFeePercent),
       platformFeeInHostCurrency |-> GetPlatformFee(o),
       paymentProcessorFeeInHostCurrency |-> FloatAmountToCents(paypalFee),
       data |-> [paymentInfo |-> info, isFeesOnTop |-> o.isFeesOnTop] ]

\* payload.transaction with the host fee taken on the amount in major units
BuildTransactionHostFeeOnMajorUnits(o, info) ==
  LET transaction == info.transactions[1]
      amountFromPayPal == ParseFloat(transaction.amount.total)
      amountFromPayPalInCents == FloatAmountToCents(amountFromPayPal)
      paypalFee == ParseFloat(Get(transaction, FeePath, << "0", ".", "0" >>))
  IN [ type |-> "CREDIT",
       OrderId |-> o.id,
       amount |-> o.totalAmount,
       currency |-> o.currency,
       hostCurrency |-> transaction.amount.currency,
       amountInHostCurrency |-> amountFromPayPalInCents,
       hostCurrencyFxRate |-> [num |-> o.totalAmount, den |-> amountFromPayPalInCents],
       hostFeeInHostCurrency |-> MathRound(amountFromPayPal * o.hostFeePercent, 100000),
       platformFeeInHostCurrency |-> GetPlatformFee(o),
       paymentProcessorFeeInHostCurrency |-> FloatAmountToCents(paypalFee),
       data |-> [paymentInfo |-> info, isFeesOnTop |-> o.isFeesOnTop] ]

\* payload.transaction of createTransaction
BuildTransaction(o, info) ==
  LET transaction == info.transactions[1]
      amountFromPayPal == ParseFloat(transaction.amount.total)
      paypalFee == ParseFloat(Get(transaction, FeePath, << "0", ".", "0" >>))
      amountFromPayPalInCents == FloatAmountToCents(amountFromPayPal)
      paypalFeeInCents == FloatAmountToCents(paypalFee)
      currencyFromPayPal == transaction.amount.currency
      hostFeeInHostCurrency == CalcFee(amountFromPayPalInCents, o.hostFeePercent)
      platformFeeInHostCurrency == GetPlatformFee(o)
  IN [ type |-> "CREDIT",
       OrderId |-> o.id,
       amount |-> o.totalAmount,
       currency |-> o.currency,
       hostCurrency |-> currencyFromPayPal,
       amountInHostCurrency |-> amountFromPayPalInCents,
       hostCurrencyFxRate |-> [num |-> o.totalAmount, den |-> amountFromPayPalInCents],
       hostFeeInHostCurrency |-> hostFeeInHostCurrency,
       platformFeeInHostCurrency |-> platformFeeInHostCurrency,
       paymentProcessorFeeInHostCurrency |-> paypalFeeInCents,
       data |-> [paymentInfo |-> info, isFeesOnTop |-> o.isFeesOnTop] ]

-----------------------------------------------------------------------------
(* The environment: what the provider and the datastore may answer *)

TheAccount == Account(1, "paypal", 1, FALSE, TRUE, TRUE)
TheToken == "A21AA"

\* answers of the OAuth endpoint; "network" is a fetch that rejects
TokenResponses ==
  { [network |-> TRUE],
    [ok |-> TRUE, json |-> TRUE, body |-> [access_token |-> TheToken]],
    [ok |-> FALSE, json |-> TRUE, body |-> [error |-> "invalid_client"]],
    [ok |-> FALSE, json |-> FALSE] }

\* answers of the payments endpoint to a POST bearing `bearer`; the provider
\* authenticates the bearer token, so only a token it issued can get a 2xx
GatewayResponses(bearer, bodies) ==
  { [network |-> TRUE],
    [ok |-> FALSE, json |-> TRUE, body |-> [message |-> "Payment declined"]],
    [ok |-> FALSE, json |-> FALSE] }
  \cup (IF bearer = Undefined THEN { }
        ELSE { [ok |-> TRUE, json |-> FALSE] }
             \cup { [ok |-> TRUE, json |-> TRUE, body |-> b] : b \in bodies })

-----------------------------------------------------------------------------
(* Initial state *)

Fresh == [p \in Procs |-> None]

\* Account.settings that is null, and the {} it is replaced by
NullSettings == [null |-> "null"]
EmptySettings == [k \in { } |-> ""]

InitProcs ==
  /\ pc = [p \in Procs |-> "idle"]
  /\ op = [p \in Procs |-> "none"]
  /\ req = Fresh
  /\ token = [p \in Procs |-> Undefined]
  /\ response = Fresh
  /\ paymentInfo = Fresh
  /\ built = Fresh
  /\ outcome = Fresh
  /\ logged = Fresh
  /\ sent = [p \in Procs |-> << >>]
  /\ trace = [p \in Procs |-> << >>]
  /\ created = [p \in Procs |-> 0]
  /\ startedProcessed = [p \in Procs |-> FALSE]

\* no account mutation has been called
InitAccountIdle ==
  /\ accountSettings = NullSettings
  /\ twoFactorAuthToken = Null
  /\ rowLock = 0
  /\ localSettings = Fresh
  /\ settingsAtStart = NullSettings
  /\ updates = << >>

Init ==
  /\ InitAccountIdle
  /\ connectedAccounts \in CredentialConfigs
  /\ order \in PipelineOrders
  /\ processedAt = NullDate
  /\ confirmedAt = NullDate
  /\ transactions = << >>
  /\ clock = 1
  /\ runs = 0
  /\ captures = 0
  /\ InitProcs

-----------------------------------------------------------------------------
(* Actions *)

Step(name, ok) == [step |-> name, ok |-> ok]
Thrown(name, message) == [kind |-> "error", name |-> name, message |-> message]
Returned(value) == [kind |-> "value", value |-> value]

\* the pipeline rejects: the error propagates to the caller of the entry point
Throw(p, step, name, message) ==
  /\ pc' = [pc EXCEPT ![p] = "rejected"]
  /\ outcome' = [outcome EXCEPT ![p] = Thrown(name, message)]
  /\ trace' = [trace EXCEPT ![p] = Append(@, Step(step, FALSE))]

\* a new invocation starts with fresh locals
Begin(p, entry, body) ==
  /\ pc[p] \in {"idle", "done", "rejected"}
  /\ runs < MaxRuns
  /\ runs' = runs + 1
  /\ op' = [op EXCEPT ![p] = entry]
  /\ req' = [req EXCEPT ![p] = body]
  /\ token' = [token EXCEPT ![p] = Undefined]
  /\ response' = [response EXCEPT ![p] = None]
  /\ paymentInfo' = [paymentInfo EXCEPT ![p] = None]
  /\ built' = [built EXCEPT ![p] = None]
  /\ logged' = [logged EXCEPT ![p] = None]
  /\ sent' = [sent EXCEPT ![p] = << >>]
  /\ created' = [created EXCEPT ![p] = 0]
  /\ startedProcessed' = [startedProcessed EXCEPT ![p] = processedAt # NullDate]
  /\ UNCHANGED << accountVars, dbVars, captures >>

\* processOrder that marks the Order processed before it executes the payment
ProcessOrderMarkingFirst(p) ==
  /\ pc[p] \in {"idle", "done", "rejected"}
  /\ runs < MaxRuns
  /\ runs' = runs + 1
  /\ processedAt' = Date(clock)
  /\ clock' = clock + 1
  /\ op' = [op EXCEPT ![p] = "processOrder"]
  /\ req' = [req EXCEPT ![p] = None]
  /\ token' = [token EXCEPT ![p] = Undefined]
  /\ response' = [response EXCEPT ![p] = None]
  /\ paymentInfo' = [paymentInfo EXCEPT ![p] = None]
  /\ built' = [built EXCEPT ![p] = None]
  /\ logged' = [logged EXCEPT ![p] = None]
  /\ sent' = [sent EXCEPT ![p] = << >>]
  /\ created' = [created EXCEPT ![p] = 0]
  /\ startedProcessed' = [startedProcessed EXCEPT ![p] = processedAt # NullDate]
  /\ pc' = [pc EXCEPT ![p] = "executePayment"]
  /\ outcome' = [outcome EXCEPT ![p] = None]
  /\ trace' = [trace EXCEPT ![p] = << >>]
  /\ UNCHANGED << accountVars, connectedAccounts, order, confirmedAt, transactions, captures >>

\* processOrder(order) is called; it suspends in executePayment at getHostCollective
ProcessOrder(p) ==
  /\ Begin(p, "processOrder", None)
  /\ pc' = [pc EXCEPT ![p] = "executePayment"]
  /\ outcome' = [outcome EXCEPT ![p] = None]
  /\ trace' = [trace EXCEPT ![p] = << >>]

\* executePayment that confirms the PaymentMethod on its way
ExecutePaymentConfirming(p) ==
  /\ pc[p] = "executePayment"
  /\ pc' = [pc EXCEPT ![p] = "getConnectedAccounts"]
  /\ confirmedAt' = Date(clock)
  /\ UNCHANGED << accountVars, connectedAccounts, order, processedAt, transactions, clock, runs,
                  captures, op, req, token, response, paymentInfo, built,
                  outcome, logged, sent, trace, created, startedProcessed >>

\* executePayment: the host is resolved and paypalRequest is called
ExecutePayment(p) ==
  /\ pc[p] = "executePayment"
  /\ pc' = [pc EXCEPT ![p] = "getConnectedAccounts"]
  /\ UNCHANGED << accountVars, dbVars, runs, captures, op, req, token, response, paymentInfo, built,
                  outcome, logged, sent, trace, created, startedProcessed >>

\* createPayment without the test of amount and currency
CreatePaymentWithoutValidation(p) ==
  \E body \in CreateRequests :
    /\ Begin(p, "createPayment", body)
    /\ pc' = [pc EXCEPT ![p] = "findByPk"]
    /\ outcome' = [outcome EXCEPT ![p] = None]
    /\ trace' = [trace EXCEPT ![p] = << Step("validation", TRUE) >>]

\* createPayment(req, res) is called: validation, then findByPk
CreatePayment(p) ==
  \E body \in CreateRequests :
    /\ Begin(p, "createPayment", body)
    /\ IF body.amount = Undefined \/ body.currency = Undefined
         THEN /\ pc' = [pc EXCEPT ![p] = "rejected"]
              /\ outcome' = [outcome EXCEPT ![p] =
                               Thrown("Error", << "Amount & Currency are required" >>)]
              /\ trace' = [trace EXCEPT ![p] = << Step("validation", FALSE) >>]
         ELSE /\ pc' = [pc EXCEPT ![p] = "findByPk"]
              /\ outcome' = [outcome EXCEPT ![p] = None]
              /\ trace' = [trace EXCEPT ![p] = << Step("validation", TRUE) >>]

\* createPayment: models.Collective.findByPk(hostId) resolved
FindByPk(p) ==
  /\ pc[p] = "findByPk"
  /\ IF req[p].hostId # "host"
       THEN Throw(p, "host", "Error", << "Couldn't find host collective" >>)
       ELSE /\ pc' = [pc EXCEPT ![p] = "getConnectedAccounts"]
            /\ trace' = [trace EXCEPT ![p] = Append(@, Step("host", TRUE))]
            /\ UNCHANGED outcome
  /\ UNCHANGED << accountVars, dbVars, runs, captures, op, req, token, response, paymentInfo, built,
                  logged, sent, created, startedProcessed >>

\* paypalRequest: getConnectedAccounts resolved; the credential is checked and
\* retrieveOAuthToken issues the token request
PaypalRequestLookup(p) ==
  /\ pc[p] = "getConnectedAccounts"
  /\ LET found == GetConnectedAccounts(connectedAccounts) IN
     IF Unsupported(found)
       THEN /\ Throw(p, "credential", "Error", << "Host doesn't support PayPal payments." >>)
            /\ UNCHANGED sent
       ELSE /\ pc' = [pc EXCEPT ![p] = "retrieveOAuthToken"]
            /\ trace' = [trace EXCEPT ![p] = Append(@, Step("credential", TRUE))]
            /\ sent' = [sent EXCEPT ![p] = Append(@, TokenRequest(found[1]))]
            /\ UNCHANGED outcome
  /\ UNCHANGED << accountVars, dbVars, runs, captures, op, req, token, response, paymentInfo, built,
                  logged, created, startedProcessed >>

\* retrieveOAuthToken: the token request settles; paypalRequest then issues the POST
RetrieveOAuthToken(p) ==
  /\ pc[p] = "retrieveOAuthToken"
  /\ \E r \in TokenResponses :
       IF "network" \in DOMAIN r
         THEN /\ Throw(p, "token", "FetchError", << "request to oauth2/token failed" >>)
              /\ UNCHANGED << token, sent >>
       ELSE IF ~r.json
         THEN /\ Throw(p, "token", "SyntaxError", << "Unexpected token in JSON" >>)
              /\ UNCHANGED << token, sent >>
       ELSE /\ token' = [token EXCEPT ![p] = AccessToken(r.body)]
            /\ pc' = [pc EXCEPT ![p] = "fetch"]
            /\ trace' = [trace EXCEPT ![p] = Append(@, Step("token", r.ok))]
            /\ sent' = [sent EXCEPT ![p] = Append(@, PostRequest(p, AccessToken(r.body)))]
            /\ UNCHANGED outcome
  /\ UNCHANGED << accountVars, dbVars, runs, captures, op, req, response, paymentInfo, built,
                  logged, created, startedProcessed >>

\* the rejection message without the provider's message
RejectionMessageGeneric(r) == << "PayPal payment rejected" >>

\* what paypalRequest raises for a response that is not ok
RejectionMessage(r) ==
  IF r.json THEN << "PayPal payment rejected", ": ", r.body.message >>
  ELSE << "PayPal payment rejected" >>

\* errorData of paypalRequest: the parsed body, or the parse failure
ErrorData(r) == IF r.json THEN r.body ELSE [name |-> "SyntaxError"]

\* paypalRequest: the POST settles and is classified; on success the caller resumes
PaypalRequestFetch(p, bodies) ==
  /\ pc[p] = "fetch"
  /\ \E r \in GatewayResponses(token[p],
                 IF op[p] = "createPayment" THEN { [id |-> "PAY-1"] } ELSE bodies) :
       /\ response' = [response EXCEPT ![p] = r]
       /\ IF "network" \in DOMAIN r
            THEN /\ Throw(p, "gateway", "FetchError", << "request to payments failed" >>)
                 /\ UNCHANGED << logged, paymentInfo, captures >>
          ELSE IF ~r.ok
            THEN /\ Throw(p, "gateway", "Error", RejectionMessage(r))
                 /\ logged' = [logged EXCEPT ![p] = ErrorData(r)]
                 /\ UNCHANGED << paymentInfo, captures >>
          ELSE IF ~r.json
            THEN /\ Throw(p, "gateway", "SyntaxError", << "Unexpected token in JSON" >>)
                 /\ captures' = IF op[p] = "processOrder" THEN captures + 1 ELSE captures
                 /\ UNCHANGED << logged, paymentInfo >>
          ELSE /\ paymentInfo' = [paymentInfo EXCEPT ![p] = r.body]
               /\ captures' = IF op[p] = "processOrder" THEN captures + 1 ELSE captures
               /\ trace' = [trace EXCEPT ![p] = Append(@, Step("gateway", TRUE))]
               /\ IF op[p] = "createPayment"
                    THEN /\ pc' = [pc EXCEPT ![p] = "done"]
                         /\ outcome' = [outcome EXCEPT ![p] = Returned([id |-> r.body.id])]
                    ELSE /\ pc' = [pc EXCEPT ![p] = "createTransaction"]
                         /\ UNCHANGED outcome
               /\ UNCHANGED logged
  /\ UNCHANGED << accountVars, dbVars, runs, op, req, token, built, sent, created, startedProcessed >>

\* Transaction.createFromPayload: one atomic insert
CreateFromPayload(table, tx) == Append(table, tx)

\* createTransaction that builds the record and never inserts it
CreateTransactionWithoutInsert(p) ==
  /\ pc[p] = "createTransaction"
  /\ built' = [built EXCEPT ![p] = BuildTransaction(order, paymentInfo[p])]
  /\ pc' = [pc EXCEPT ![p] = "orderUpdate"]
  /\ trace' = [trace EXCEPT ![p] = Append(@, Step("transaction", TRUE))]
  /\ UNCHANGED << accountVars, dbVars, runs, captures, op, req, token, response, paymentInfo, outcome,
                  logged, sent, created, startedProcessed >>

\* createTransaction whose failed insert is caught and ignored
CreateTransactionSwallowingFailure(p) ==
  /\ pc[p] = "createTransaction"
  /\ LET tx == BuildTransaction(order, paymentInfo[p]) IN
     /\ built' = [built EXCEPT ![p] = tx]
     /\ pc' = [pc EXCEPT ![p] = "orderUpdate"]
     /\ \/ /\ transactions' = CreateFromPayload(transactions, tx)
           /\ created' = [created EXCEPT ![p] = @ + 1]
           /\ trace' = [trace EXCEPT ![p] = Append(@, Step("transaction", TRUE))]
        \/ /\ trace' = [trace EXCEPT ![p] = Append(@, Step("transaction", FALSE))]
           /\ UNCHANGED << transactions, created >>
  /\ UNCHANGED << accountVars, connectedAccounts, order, processedAt, confirmedAt, clock, runs,
                  captures, op, req, token, response, paymentInfo, outcome, logged, sent,
                  startedProcessed >>

\* createTransaction: the record is built and handed to createFromPayload
CreateTransaction(p) ==
  /\ pc[p] = "createTransaction"
  /\ LET tx == BuildTransaction(order, paymentInfo[p]) IN
     /\ built' = [built EXCEPT ![p] = tx]
     /\ \/ /\ transactions' = CreateFromPayload(transactions, tx)
           /\ created' = [created EXCEPT ![p] = @ + 1]
           /\ pc' = [pc EXCEPT ![p] = "orderUpdate"]
           /\ trace' = [trace EXCEPT ![p] = Append(@, Step("transaction", TRUE))]
           /\ UNCHANGED outcome
        \/ /\ Throw(p, "transaction", "SequelizeError", << "insert failed" >>)
           /\ UNCHANGED << transactions, created >>
  /\ UNCHANGED << accountVars, connectedAccounts, order, processedAt, confirmedAt, clock, runs,
                  captures, op, req, token, response, paymentInfo, logged, sent,
                  startedProcessed >>

\* order.update whose failure is caught and ignored
OrderUpdateSwallowingFailure(p) ==
  /\ pc[p] = "orderUpdate"
  /\ clock' = clock + 1
  /\ pc' = [pc EXCEPT ![p] = "paymentMethodUpdate"]
  /\ \/ /\ processedAt' = Date(clock)
        /\ trace' = [trace EXCEPT ![p] = Append(@, Step("processedAt", TRUE))]
     \/ /\ trace' = [trace EXCEPT ![p] = Append(@, Step("processedAt", FALSE))]
        /\ UNCHANGED processedAt
  /\ UNCHANGED << accountVars, connectedAccounts, order, confirmedAt, transactions, runs, captures,
                  op, req, token, response, paymentInfo, built, outcome, logged, sent,
                  created, startedProcessed >>

\* processOrder: order.update({ processedAt: new Date() })
OrderUpdate(p) ==
  /\ pc[p] = "orderUpdate"
  /\ clock' = clock + 1
  /\ \/ /\ processedAt' = Date(clock)
        /\ pc' = [pc EXCEPT ![p] = "paymentMethodUpdate"]
        /\ trace' = [trace EXCEPT ![p] = Append(@, Step("processedAt", TRUE))]
        /\ UNCHANGED outcome
     \/ /\ Throw(p, "processedAt", "SequelizeError", << "update failed" >>)
        /\ UNCHANGED processedAt
  /\ UNCHANGED << accountVars, connectedAccounts, order, confirmedAt, transactions, runs, captures,
                  op, req, token, response, paymentInfo, built, logged, sent, created,
                  startedProcessed >>

\* processOrder: order.paymentMethod.update({ confirmedAt: new Date() }); return transaction
PaymentMethodUpdate(p) ==
  /\ pc[p] = "paymentMethodUpdate"
  /\ clock' = clock + 1
  /\ \/ /\ confirmedAt' = Date(clock)
        /\ pc' = [pc EXCEPT ![p] = "done"]
        /\ trace' = [trace EXCEPT ![p] = Append(@, Step("confirmedAt", TRUE))]
        /\ outcome' = [outcome EXCEPT ![p] = Returned(built[p])]
     \/ /\ Throw(p, "confirmedAt", "SequelizeError", << "update failed" >>)
        /\ UNCHANGED confirmedAt
  /\ UNCHANGED << accountVars, connectedAccounts, order, processedAt, transactions, runs, captures,
                  op, req, token, response, paymentInfo, built, logged, sent, created,
                  startedProcessed >>

Next ==
  \E p \in Procs :
    \/ ProcessOrder(p)
    \/ ExecutePayment(p)
    \/ CreatePayment(p)
    \/ FindByPk(p)
    \/ PaypalRequestLookup(p)
    \/ RetrieveOAuthToken(p)
    \/ PaypalRequestFetch(p, PipelinePayloads)
    \/ CreateTransaction(p)
    \/ OrderUpdate(p)
    \/ PaymentMethodUpdate(p)

Spec == Init /\ [][Next]_vars

-----------------------------------------------------------------------------
(* The Transaction Builder on its own: pipeline 1 has just been handed a   *)
(* capture payload by executePayment, for every Order and payload of the   *)
(* input sets; pipeline 2 never starts.                                     *)

InitTx ==
  /\ InitAccountIdle
  /\ connectedAccounts = << TheAccount >>
  /\ order \in Orders
  /\ processedAt = NullDate
  /\ confirmedAt = NullDate
  /\ transactions = << >>
  /\ clock = 1
  /\ runs = 1
  /\ captures = 1
  /\ pc = [p \in Procs |-> IF p = 1 THEN "createTransaction" ELSE "idle"]
  /\ op = [p \in Procs |-> IF p = 1 THEN "processOrder" ELSE "none"]
  /\ req = Fresh
  /\ token = [p \in Procs |-> IF p = 1 THEN TheToken ELSE Undefined]
  /\ paymentInfo \in { [p \in Procs |-> IF p = 1 THEN info ELSE None] : info \in CapturePayloads }
  /\ response = [p \in Procs |->
                   IF p = 1 THEN [ok |-> TRUE, json |-> TRUE, body |-> paymentInfo[1]] ELSE None]
  /\ built = Fresh
  /\ outcome = Fresh
  /\ logged = Fresh
  /\ sent = [p \in Procs |->
               IF p = 1 THEN << TokenRequest(TheAccount), PostRequest(1, TheToken) >> ELSE << >>]
  /\ trace = [p \in Procs |->
                IF p = 1 THEN << Step("credential", TRUE), Step("token", TRUE),
                                 Step("gateway", TRUE) >>
                ELSE << >>]
  /\ created = [p \in Procs |-> 0]
  /\ startedProcessed = [p \in Procs |-> FALSE]

NextTx == CreateTransaction(1) \/ OrderUpdate(1) \/ PaymentMethodUpdate(1)

SpecTx == InitTx /\ [][NextTx]_vars

-----------------------------------------------------------------------------
(* The account mutations editAccountSetting and addAccountTwoFactorAuth, called  *)
(* concurrently on one account by requests whose user is absent, an admin of the *)
(* account or a plain member. The account reference always resolves.            *)

RemoteUsers == {"none", "admin", "member"}

\* args and req.remoteUser of editAccountSetting
EditCalls == [ remoteUser : RemoteUsers, key : {"goal", "theme"}, value : {"x", "y"} ]

\* args and req.remoteUser of addAccountTwoFactorAuth
AddCalls == [ remoteUser : RemoteUsers, token : {"SECRET-1", "SECRET-2"} ]

\* lodash set(settings, key, value) for a top-level key
Set(settings, key, value) ==
  [k \in DOMAIN settings \cup {key} |-> IF k = key THEN value ELSE settings[k]]

\* account.settings ? cloneDeep(account.settings) : {}
CloneSettings(settings) == IF settings = NullSettings THEN EmptySettings ELSE settings

\* fetchAccountWithReference(..., { dbTransaction, lock: true }): the row is read
\* FOR UPDATE, which waits while another transaction holds its lock
RowLockGranted(p) == rowLock = 0

callVars == << runs, captures, op, req, token, response, paymentInfo, built, logged,
               sent, created, startedProcessed >>

InitAccount ==
  /\ connectedAccounts = << TheAccount >>
  /\ order \in PipelineOrders
  /\ processedAt = NullDate
  /\ confirmedAt = NullDate
  /\ transactions = << >>
  /\ clock = 1
  /\ runs = 0
  /\ captures = 0
  /\ InitProcs
  /\ accountSettings \in {NullSettings, [theme |-> "dark"]}
  /\ twoFactorAuthToken \in {Null, "SECRET-0"}
  /\ rowLock = 0
  /\ localSettings = Fresh
  /\ settingsAtStart = accountSettings
  /\ updates = << >>

\* a resolver is called: `if (!req.remoteUser) throw new Unauthorized()`
Resolve(p, mutation, call, next) ==
  /\ Begin(p, mutation, call)
  /\ IF call.remoteUser = "none"
       THEN /\ pc' = [pc EXCEPT ![p] = "rejected"]
            /\ outcome' = [outcome EXCEPT ![p] = Thrown("Unauthorized", << >>)]
            /\ trace' = [trace EXCEPT ![p] = << Step("authenticated", FALSE) >>]
       ELSE /\ pc' = [pc EXCEPT ![p] = next]
            /\ outcome' = [outcome EXCEPT ![p] = None]
            /\ trace' = [trace EXCEPT ![p] = << Step("authenticated", TRUE) >>]

\* editAccountSetting is called; an authenticated call opens a transaction
EditAccountSetting(p) ==
  \E call \in EditCalls : Resolve(p, "editAccountSetting", call, "fetchAccountForUpdate")

\* editAccountSetting that reads the account without locking its row
EditFetchAccountWithoutLock(p) ==
  /\ pc[p] = "fetchAccountForUpdate"
  /\ IF req[p].remoteUser # "admin"
       THEN /\ pc' = [pc EXCEPT ![p] = "rollback"]
            /\ trace' = [trace EXCEPT ![p] = Append(@, Step("admin", FALSE))]
            /\ UNCHANGED localSettings
       ELSE /\ pc' = [pc EXCEPT ![p] = "accountUpdate"]
            /\ trace' = [trace EXCEPT ![p] = Append(@, Step("admin", TRUE))]
            /\ localSettings' = [localSettings EXCEPT ![p] =
                 Set(CloneSettings(accountSettings), req[p].key, req[p].value)]
  /\ UNCHANGED << dbVars, callVars, outcome, accountSettings, twoFactorAuthToken,
                  rowLock, settingsAtStart, updates >>

\* editAccountSetting: the locked read of the account resolved; the admin test, the
\* clone and the set run, and account.update is issued
EditFetchAccount(p) ==
  /\ pc[p] = "fetchAccountForUpdate"
  /\ RowLockGranted(p)
  /\ rowLock' = p
  /\ IF req[p].remoteUser # "admin"
       THEN /\ pc' = [pc EXCEPT ![p] = "rollback"]
            /\ trace' = [trace EXCEPT ![p] = Append(@, Step("admin", FALSE))]
            /\ UNCHANGED localSettings
       ELSE /\ pc' = [pc EXCEPT ![p] = "accountUpdate"]
            /\ trace' = [trace EXCEPT ![p] = Append(@, Step("admin", TRUE))]
            /\ localSettings' = [localSettings EXCEPT ![p] =
                 Set(CloneSettings(accountSettings), req[p].key, req[p].value)]
  /\ UNCHANGED << dbVars, callVars, outcome, accountSettings, twoFactorAuthToken,
                  settingsAtStart, updates >>

\* editAccountSetting: account.update({ settings }, { transaction }) resolved
EditAccountUpdate(p) ==
  /\ pc[p] = "accountUpdate"
  /\ accountSettings' = localSettings[p]
  /\ updates' = Append(updates, [key |-> req[p].key, value |-> req[p].value,
                                  remoteUser |-> req[p].remoteUser])
  /\ pc' = [pc EXCEPT ![p] = "commit"]
  /\ trace' = [trace EXCEPT ![p] = Append(@, Step("update", TRUE))]
  /\ UNCHANGED << dbVars, callVars, outcome, twoFactorAuthToken, rowLock, localSettings,
                  settingsAtStart >>

\* editAccountSetting: the transaction commits and the updated account is returned
EditCommit(p) ==
  /\ pc[p] = "commit"
  /\ rowLock' = IF rowLock = p THEN 0 ELSE rowLock
  /\ pc' = [pc EXCEPT ![p] = "done"]
  /\ outcome' = [outcome EXCEPT ![p] = Returned([settings |-> localSettings[p]])]
  /\ UNCHANGED << dbVars, callVars, trace, accountSettings, twoFactorAuthToken,
                  localSettings, settingsAtStart, updates >>

\* editAccountSetting: Forbidden was thrown in the transaction, which rolls back
EditRollback(p) ==
  /\ pc[p] = "rollback"
  /\ rowLock' = IF rowLock = p THEN 0 ELSE rowLock
  /\ pc' = [pc EXCEPT ![p] = "rejected"]
  /\ outcome' = [outcome EXCEPT ![p] = Thrown("Forbidden", << >>)]
  /\ UNCHANGED << dbVars, callVars, trace, accountSettings, twoFactorAuthToken,
                  localSettings, settingsAtStart, updates >>

\* addAccountTwoFactorAuth is called
AddAccountTwoFactorAuth(p) ==
  \E call \in AddCalls : Resolve(p, "addAccountTwoFactorAuth", call, "fetchAccount")

\* addAccountTwoFactorAuth: fetchAccountWithReference resolved; the admin test
AddFetchAccount(p) ==
  /\ pc[p] = "fetchAccount"
  /\ IF req[p].remoteUser # "admin"
       THEN Throw(p, "admin", "Forbidden", << >>)
       ELSE /\ pc' = [pc EXCEPT ![p] = "findUser"]
            /\ trace' = [trace EXCEPT ![p] = Append(@, Step("admin", TRUE))]
            /\ UNCHANGED outcome
  /\ UNCHANGED << dbVars, callVars, accountVars >>

\* addAccountTwoFactorAuth: User.findOne resolved; the token read is tested and
\* user.update is issued
AddFindUser(p) ==
  /\ pc[p] = "findUser"
  /\ IF twoFactorAuthToken # Null
       THEN Throw(p, "twoFactorAuthToken", "Unauthorized",
                  << "This account already has 2FA enabled." >>)
       ELSE /\ pc' = [pc EXCEPT ![p] = "userUpdate"]
            /\ trace' = [trace EXCEPT ![p] = Append(@, Step("twoFactorAuthToken", TRUE))]
            /\ UNCHANGED outcome
  /\ UNCHANGED << dbVars, callVars, accountVars >>

\* addAccountTwoFactorAuth: user.update({ twoFactorAuthToken: args.token }) resolved
AddUserUpdate(p) ==
  /\ pc[p] = "userUpdate"
  /\ twoFactorAuthToken' = req[p].token
  /\ pc' = [pc EXCEPT ![p] = "done"]
  /\ trace' = [trace EXCEPT ![p] = Append(@, Step("update", TRUE))]
  /\ outcome' = [outcome EXCEPT ![p] = Returned([settings |-> accountSettings])]
  /\ UNCHANGED << dbVars, callVars, accountSettings, rowLock, localSettings,
                  settingsAtStart, updates >>

NextAccount ==
  \E p \in Procs :
    \/ EditAccountSetting(p)
    \/ EditFetchAccount(p)
    \/ EditAccountUpdate(p)
    \/ EditCommit(p)
    \/ EditRollback(p)
    \/ AddAccountTwoFactorAuth(p)
    \/ AddFetchAccount(p)
    \/ AddFindUser(p)
    \/ AddUserUpdate(p)

SpecAccount == InitAccount /\ [][NextAccount]_vars

-----------------------------------------------------------------------------
(* Properties *)

Range(f) == { f[i] : i \in DOMAIN f }
InFlight(p) == pc[p] \notin {"idle", "done", "rejected"}
Finalizing(p) == op[p] = "processOrder"
Succeeded(p) == Finalizing(p) /\ pc[p] = "done"

\* C1: a processOrder run that returned its Transaction has inserted exactly one
\* Transaction, the one it returns, and that Transaction belongs to the Order.
C1_OneTransactionPerSuccessfulRun ==
  \A p \in Procs :
    Succeeded(p) =>
      /\ paymentInfo[p] # None
      /\ created[p] = 1
      /\ outcome[p].kind = "value"
      /\ outcome[p].value \in Range(transactions)
      /\ outcome[p].value.OrderId = order.id

C1_Witness == \E p \in Procs : Succeeded(p) /\ Len(transactions) = 1

\* C2: while two processOrder pipelines of the same Order are in flight together, at
\* most one of them has been answered 2xx by the provider and at most one Transaction
\* has been inserted by the two of them.
C2_NoDoubleCaptureNoDoubleTransaction ==
  (\A p \in Procs : Finalizing(p) /\ InFlight(p)) =>
    /\ Cardinality({ p \in Procs : paymentInfo[p] # None }) <= 1
    /\ Cardinality({ p \in Procs : created[p] > 0 }) <= 1

\* C3: a processOrder run that began with processedAt already set inserts no Transaction.
C3_FinalizerIdempotent ==
  \A p \in Procs : (Finalizing(p) /\ startedProcessed[p]) => created[p] = 0

\* the capture payload's first line item has a captured amount of zero
CapturedZero(info) == ParseFloat(info.transactions[1].amount.total) = 0

\* C4: once createTransaction has run on a payload whose captured amount is zero, the
\* run has failed with a DataIntegrityError, createFromPayload was given nothing and no
\* Transaction of that payload is stored.
C4_ZeroCaptureIsRejected ==
  \A p \in Procs :
    (Finalizing(p) /\ paymentInfo[p] # None /\ pc[p] # "createTransaction"
       /\ CapturedZero(paymentInfo[p])) =>
      /\ pc[p] = "rejected"
      /\ outcome[p].name = "DataIntegrityError"
      /\ built[p] = None
      /\ created[p] = 0

\* the host's newest paypal row that is not soft-deleted, as a set of at most one row
NewestActive ==
  { a \in Range(connectedAccounts) :
      /\ a.service = "paypal" /\ a.deletedAt = NullDate
      /\ \A b \in Range(connectedAccounts) :
           (b.service = "paypal" /\ b.deletedAt = NullDate) => b.createdAt <= a.createdAt }
NoUsableCredential == \A a \in NewestActive : a.clientId = Null \/ a.token = Null

ConfigurationError == Thrown("Error", << "Host doesn't support PayPal payments." >>)

\* C5: when the host has no usable paypal credential, no pipeline sends any request or
\* inserts a Transaction, none gets past the credential check, and every pipeline that
\* reached the check was rejected there with the configuration error.
C5_NoCredentialNoNetwork ==
  NoUsableCredential =>
    \A p \in Procs :
      /\ sent[p] = << >>
      /\ created[p] = 0
      /\ transactions = << >>
      /\ pc[p] \in {"idle", "executePayment", "findByPk", "getConnectedAccounts", "rejected"}
      /\ (pc[p] = "rejected" /\ Finalizing(p)) => outcome[p] = ConfigurationError
      /\ (pc[p] = "rejected" /\ trace[p] # << >> /\ trace[p][Len(trace[p])].step = "credential")
           => outcome[p] = ConfigurationError

C5_Witness ==
  /\ NoUsableCredential
  /\ \E p, q \in Procs :
       /\ op[p] = "processOrder" /\ op[q] = "createPayment"
       /\ outcome[p] = ConfigurationError /\ outcome[q] = ConfigurationError
       /\ pc[p] = "rejected" /\ pc[q] = "rejected"

\* the steps of one Order's pipeline, in the order the specification gives them
PipelineSteps == << "credential", "token", "gateway", "transaction", "processedAt", "confirmedAt" >>

\* C6: the steps a processOrder run has taken are an initial part of the pipeline order
\* and every step but the last one taken has succeeded.
C6_StrictlySequentialSteps ==
  \A p \in Procs :
    Finalizing(p) =>
      /\ Len(trace[p]) <= Len(PipelineSteps)
      /\ \A i \in 1..Len(trace[p]) : trace[p][i].step = PipelineSteps[i]
      /\ \A i \in 1..(Len(trace[p]) - 1) : trace[p][i].ok

MarkFailed(p, mark) == Finalizing(p) /\ Step(mark, FALSE) \in Range(trace[p])
Untouched == transactions = << >> /\ processedAt = NullDate /\ confirmedAt = NullDate
Settled == transactions # << >> /\ processedAt # NullDate /\ confirmedAt # NullDate

\* C7 as stated: after a failed mark the run has rejected, its Transaction exists and,
\* the run being the only one so far, the Order is not marked processed.
C7_FailedMarkLeavesOrderUnprocessed ==
  \A p \in Procs :
    (MarkFailed(p, "processedAt") \/ MarkFailed(p, "confirmedAt")) =>
      /\ pc[p] = "rejected" /\ outcome[p].kind = "error"
      /\ created[p] = 1
      /\ runs = 1 => (transactions # << >> /\ processedAt = NullDate)

\* C7 amended: after a failed mark the run has rejected with the datastore's error and
\* its Transaction is stored; in the only run so far, a failed Order mark leaves both
\* marks unset and a failed PaymentMethod mark leaves processedAt set and confirmedAt
\* unset, and either state is neither the untouched nor the settled one.
C7_FailedMarkRejectsAndIsDetectable ==
  \A p \in Procs :
    (MarkFailed(p, "processedAt") \/ MarkFailed(p, "confirmedAt")) =>
      /\ pc[p] = "rejected"
      /\ outcome[p] = Thrown("SequelizeError", << "update failed" >>)
      /\ created[p] = 1 /\ built[p] \in Range(transactions)
      /\ runs = 1 =>
           /\ ~Untouched /\ ~Settled
           /\ MarkFailed(p, "processedAt") => (processedAt = NullDate /\ confirmedAt = NullDate)
           /\ MarkFailed(p, "confirmedAt") => (processedAt # NullDate /\ confirmedAt = NullDate)

C7_Witness ==
  \E p \in Procs : runs = 1 /\ MarkFailed(p, "confirmedAt") /\ processedAt # NullDate

TokenFailed(p) == Step("token", FALSE) \in Range(trace[p])
Posts(p) == { i \in 1..Len(sent[p]) : sent[p][i].kind = "post" }
TokenRequests(p) == { i \in 1..Len(sent[p]) : sent[p][i].kind = "token" }

\* C8: a run whose token exchange failed (no answer, or an answer that is not 2xx) has
\* rejected, has issued no gateway POST, has asked for a token once and has inserted no
\* Transaction.
C8_TokenFailurePropagates ==
  \A p \in Procs :
    TokenFailed(p) =>
      /\ pc[p] = "rejected"
      /\ Posts(p) = { }
      /\ Cardinality(TokenRequests(p)) = 1
      /\ created[p] = 0

Answered(p) == response[p] # None /\ "ok" \in DOMAIN response[p]
GatewayRaised(p) == Step("gateway", FALSE) \in Range(trace[p])
GatewayReturned(p) == Step("gateway", TRUE) \in Range(trace[p])
\* the value paypalRequest returned, as its caller used it
ReturnedBody(p, body) ==
  IF op[p] = "createPayment" THEN outcome[p] = Returned([id |-> body.id])
  ELSE paymentInfo[p] = body

\* C9 as stated: a POST answered with a status that is not 2xx raises an error that
\* carries the provider's message when the body parses and the parse failure when it
\* does not; a POST answered 2xx returns the parsed body and raises nothing.
C9_GatewayClassification ==
  \A p \in Procs :
    Answered(p) =>
      IF ~response[p].ok
        THEN /\ GatewayRaised(p) /\ pc[p] = "rejected" /\ outcome[p].kind = "error"
             /\ response[p].json => response[p].body.message \in Range(outcome[p].message)
             /\ ~response[p].json =>
                  (outcome[p].name = "SyntaxError" \/ "SyntaxError" \in Range(outcome[p].message))
        ELSE /\ GatewayReturned(p) /\ ~GatewayRaised(p)
             /\ response[p].json /\ ReturnedBody(p, response[p].body)

\* C9 amended: a POST answered with a status that is not 2xx raises an Error whose
\* message is the fixed text followed by the provider's message when the body parses and
\* the fixed text alone when it does not (the parse failure is only logged); a POST
\* answered 2xx returns the parsed body when the body parses and raises the parse
\* failure when it does not.
C9_GatewayClassificationAmended ==
  \A p \in Procs :
    Answered(p) =>
      IF ~response[p].ok
        THEN /\ GatewayRaised(p) /\ pc[p] = "rejected" /\ ~GatewayReturned(p)
             /\ paymentInfo[p] = None
             /\ outcome[p].kind = "error" /\ outcome[p].name = "Error"
             /\ response[p].json =>
                  /\ outcome[p].message =
                       << "PayPal payment rejected", ": ", response[p].body.message >>
                  /\ logged[p] = response[p].body
             /\ ~response[p].json =>
                  /\ outcome[p].message = << "PayPal payment rejected" >>
                  /\ logged[p] = [name |-> "SyntaxError"]
        ELSE IF response[p].json
          THEN GatewayReturned(p) /\ ~GatewayRaised(p) /\ ReturnedBody(p, response[p].body)
          ELSE /\ GatewayRaised(p) /\ pc[p] = "rejected" /\ outcome[p].name = "SyntaxError"
               /\ paymentInfo[p] = None

C9_Witness ==
  \E p, q \in Procs :
    /\ Answered(p) /\ ~response[p].ok /\ response[p].json
    /\ Answered(q) /\ response[q].ok /\ response[q].json /\ op[q] = "createPayment"

\* cents a decimal string of the input set denotes, rounded to the nearest cent
CentsOf(total) ==
  CASE total = << "1", "0", ".", "0", "0" >> -> 1000
    [] total = << "0", ".", "0", "0" >> -> 0
    [] total = << "1", "2", ".", "3", "4" >> -> 1234
    [] total = << "-", "5", ".", "0", "0" >> -> 0 - 500
    [] total = << "0", ".", "0", "0", "4" >> -> 0
    [] total = << "1", "0", ".", "5" >> -> 1050
    [] total = << "1", "0" >> -> 1000
    [] total = << "1", "9", ".", "9", "9" >> -> 1999

Abs(n) == IF n < 0 THEN 0 - n ELSE n

\* C10: every stored Transaction whose captured amount is more than zero cents has the
\* Order's total as amount, the captured cents as amountInHostCurrency and the ratio of
\* the two as FX rate, so that rate times amountInHostCurrency is within one minor unit
\* of the Order's total.  The rate is the exact quotient num / den; the double the
\* source computes differs from it by less than one part in 2^52.
C10_FxRateConsistent ==
  \A i \in 1..Len(transactions) :
    LET tx == transactions[i]
        cents == CentsOf(tx.data.paymentInfo.transactions[1].amount.total)
        rate == tx.hostCurrencyFxRate
    IN cents > 0 =>
         /\ tx.amount = order.totalAmount
         /\ tx.amountInHostCurrency = cents
         /\ rate.den > 0
         /\ rate.num * cents = order.totalAmount * rate.den
         /\ Abs(rate.num * tx.amountInHostCurrency - order.totalAmount * rate.den) <= rate.den

C10_Witness ==
  \E i \in 1..Len(transactions) :
    /\ transactions[i].amountInHostCurrency = 1999
    /\ transactions[i].amount = 1234

\* the fee value of a line item, as a set of at most one decimal string
FeeValues(t) ==
  IF "related_resources" \notin DOMAIN t THEN { }
  ELSE IF Len(t.related_resources) = 0 THEN { }
  ELSE IF "sale" \notin DOMAIN t.related_resources[1] THEN { }
  ELSE IF "transaction_fee" \notin DOMAIN t.related_resources[1].sale THEN { }
  ELSE IF "value" \notin DOMAIN t.related_resources[1].sale.transaction_fee THEN { }
  ELSE { t.related_resources[1].sale.transaction_fee.value }

\* cents a fee string of the input set denotes
FeeCentsOf(value) ==
  CASE value = << "0", ".", "5", "9" >> -> 59
    [] value = << "-", "0", ".", "5", "9" >> -> 0 - 59

\* the first line item of the capture payload pipeline p was handed
LineItemOf(p) == paymentInfo[p].transactions[1]
BuilderRan(p) == Finalizing(p) /\ paymentInfo[p] # None /\ pc[p] # "createTransaction"

\* C11: once createTransaction has run, a record was built and handed to
\* createFromPayload whatever the shape of the fee path; its
\* paymentProcessorFeeInHostCurrency is 0 when the path is missing at any level and the
\* value in cents when it is present, and so is that of every stored Transaction.
C11_ProcessorFeeDefaultsToZero ==
  /\ \A p \in Procs :
       BuilderRan(p) =>
         /\ built[p] # None
         /\ FeeValues(LineItemOf(p)) = { } => built[p].paymentProcessorFeeInHostCurrency = 0
         /\ \A v \in FeeValues(LineItemOf(p)) :
              built[p].paymentProcessorFeeInHostCurrency = FeeCentsOf(v)
  /\ \A i \in 1..Len(transactions) :
       LET t == transactions[i].data.paymentInfo.transactions[1] IN
       /\ FeeValues(t) = { } => transactions[i].paymentProcessorFeeInHostCurrency = 0
       /\ \A v \in FeeValues(t) :
            transactions[i].paymentProcessorFeeInHostCurrency = FeeCentsOf(v)

C11_Witness ==
  /\ \E i \in 1..Len(transactions) :
       LET t == transactions[i].data.paymentInfo.transactions[1] IN
       /\ "related_resources" \in DOMAIN t /\ Len(t.related_resources) = 1
       /\ "sale" \in DOMAIN t.related_resources[1]
       /\ FeeValues(t) = { }
       /\ transactions[i].paymentProcessorFeeInHostCurrency = 0
  /\ pc[1] = "done"

\* C12: the three fees of every stored Transaction are zero or more.
C12_FeesNeverNegative ==
  \A i \in 1..Len(transactions) :
    /\ transactions[i].hostFeeInHostCurrency >= 0
    /\ transactions[i].platformFeeInHostCurrency >= 0
    /\ transactions[i].paymentProcessorFeeInHostCurrency >= 0

\* C16: for an Order captured in full in its own currency, with no fee in the payload,
\* the stored Transaction is a credit of the Order's total, with the same amount in host
\* currency, an FX rate of one, a host fee of the total times the host's percentage
\* rounded to the nearest unit, and no processor fee.
C16_FullCaptureInOrderCurrency ==
  \A i \in 1..Len(transactions) :
    LET tx == transactions[i]
        t == tx.data.paymentInfo.transactions[1]
        T == order.totalAmount
    IN (CentsOf(t.amount.total) = T /\ t.amount.currency = order.currency
          /\ FeeValues(t) = { }) =>
         /\ tx.type = "CREDIT" /\ tx.OrderId = order.id
         /\ tx.amount = T /\ tx.amountInHostCurrency = T
         /\ tx.hostCurrency = order.currency
         /\ tx.hostCurrencyFxRate.num = tx.hostCurrencyFxRate.den
         /\ tx.hostCurrencyFxRate.den > 0
         /\ T * order.hostFeePercent - 50 < 100 * tx.hostFeeInHostCurrency
         /\ 100 * tx.hostFeeInHostCurrency <= T * order.hostFeePercent + 50
         /\ (T = 1000 /\ order.hostFeePercent = 5) => tx.hostFeeInHostCurrency = 50
         /\ tx.paymentProcessorFeeInHostCurrency = 0

C16_Witness ==
  \E i \in 1..Len(transactions) :
    /\ order.totalAmount = 1000 /\ order.hostFeePercent = 5
    /\ transactions[i].data.paymentInfo.transactions[1] =
         [amount |-> [total |-> << "1", "0", ".", "0", "0" >>, currency |-> "USD"]]
    /\ transactions[i].hostFeeInHostCurrency = 50

InvalidBody(p) == req[p].amount = Undefined \/ req[p].currency = Undefined
ValidationError == Thrown("Error", << "Amount & Currency are required" >>)
CredentialFailed(p) == Step("credential", FALSE) \in Range(trace[p])

\* a creation request of pipeline p: intent sale, one transaction line with the
\* amount and the currency of the request body
IsCreationRequest(p, r) ==
  /\ r.kind = "post" /\ r.path = << "payments/payment" >>
  /\ r.body.intent = "sale"
  /\ r.body.transactions =
       << [amount |-> [total |-> req[p].amount, currency |-> req[p].currency]] >>

\* C13 as stated: a createPayment call lacking amount or currency has failed with the
\* validation error and nothing else has happened; a call with both and an existing
\* host that has ended has issued exactly one creation request and returned the remote
\* payment id.
C13_CreatePaymentValidatesThenCreates ==
  \A p \in Procs :
    op[p] = "createPayment" =>
      /\ InvalidBody(p) =>
           /\ pc[p] = "rejected" /\ outcome[p] = ValidationError
           /\ trace[p] = << Step("validation", FALSE) >> /\ sent[p] = << >>
      /\ (~InvalidBody(p) /\ req[p].hostId = "host" /\ pc[p] \in {"done", "rejected"}) =>
           /\ Cardinality(Posts(p)) = 1
           /\ \A i \in Posts(p) : IsCreationRequest(p, sent[p][i])
           /\ outcome[p].kind = "value"

\* C13 amended: a createPayment call lacking amount or currency has failed with the
\* validation error before the host lookup and before any request; no call issues more
\* than one POST, and a POST is a creation request of a call with both fields and an
\* existing host; a call that returned has issued exactly one and returns the id the
\* provider answered; a call with both fields and an existing host that was rejected
\* failed at the credential check, the token exchange or the provider's answer.
C13_CreatePaymentValidatesThenCreatesOnce ==
  \A p \in Procs :
    op[p] = "createPayment" =>
      /\ InvalidBody(p) =>
           /\ pc[p] = "rejected" /\ outcome[p] = ValidationError
           /\ trace[p] = << Step("validation", FALSE) >> /\ sent[p] = << >>
      /\ Cardinality(Posts(p)) <= 1
      /\ \A i \in Posts(p) :
           IsCreationRequest(p, sent[p][i]) /\ ~InvalidBody(p) /\ req[p].hostId = "host"
      /\ pc[p] = "done" =>
           /\ Cardinality(Posts(p)) = 1
           /\ Answered(p) /\ response[p].ok
           /\ outcome[p] = Returned([id |-> response[p].body.id])
      /\ (pc[p] = "rejected" /\ ~InvalidBody(p) /\ req[p].hostId = "host") =>
           (CredentialFailed(p) \/ TokenFailed(p) \/ GatewayRaised(p))

C13_Witness ==
  \E p, q \in Procs :
    /\ op[p] = "createPayment" /\ pc[p] = "done" /\ outcome[p] = Returned([id |-> "PAY-1"])
    /\ op[q] = "createPayment" /\ InvalidBody(q) /\ pc[q] = "rejected"

\* a step of pipeline p inside executePayment
ExecutePaymentStep(p) ==
  /\ Finalizing(p)
  /\ pc[p] \in {"executePayment", "getConnectedAccounts", "retrieveOAuthToken", "fetch"}
  /\ pc'[p] # pc[p]

\* C14: no step of executePayment, whether it ends in a capture or in a failure,
\* changes the Order, its processedAt, the PaymentMethod's confirmedAt or the stored
\* Transactions.
C14_ExecutePaymentChangesNoLocalState ==
  [][(\E p \in Procs : ExecutePaymentStep(p)) =>
       UNCHANGED << order, processedAt, confirmedAt, transactions >>]_vars

C14_Witness ==
  \E p, q \in Procs :
    /\ Finalizing(p) /\ pc[p] = "createTransaction" /\ GatewayReturned(p)
    /\ Finalizing(q) /\ pc[q] = "rejected" /\ GatewayRaised(q)
    /\ Untouched

\* the row of the host's table with the given id
RowsWithId(id) == { a \in Range(connectedAccounts) : a.id = id }

\* C15: every token request is made with the newest paypal credential that is not
\* soft-deleted, never with a deleted one; when that credential lacks clientId or token
\* the call has failed at the credential check without any token request.
C15_NewestActiveCredentialIsUsed ==
  \A p \in Procs :
    /\ \A i \in TokenRequests(p) :
         /\ \A a \in RowsWithId(sent[p][i].account) : a.deletedAt = NullDate
         /\ \E a \in NewestActive :
              /\ a.id = sent[p][i].account
              /\ sent[p][i].basic = << a.clientId, ":", a.token >>
              /\ a.clientId # Null /\ a.token # Null
    /\ (NoUsableCredential /\ trace[p] # << >>
          /\ trace[p][Len(trace[p])].step \notin {"validation", "host"}) =>
         /\ pc[p] = "rejected" /\ CredentialFailed(p) /\ TokenRequests(p) = { }

C15_Witness ==
  /\ Cardinality({ a \in Range(connectedAccounts) :
                     a.service = "paypal" /\ a.deletedAt = NullDate
                       /\ a.clientId # Null /\ a.token # Null }) = 2
  /\ connectedAccounts[1].createdAt > connectedAccounts[2].createdAt
  /\ \E p \in Procs : \E i \in TokenRequests(p) : sent[p][i].account = 2

\* the marks a run has set, as recorded in its steps
MarkSet(p, mark) == Step(mark, TRUE) \in Range(trace[p])

\* C17: processedAt is set only if a Transaction of the Order is stored, confirmedAt is
\* set only if processedAt is set, and a run whose capture or Transaction write failed
\* has been rejected without setting either mark.
C17_MarksFollowTransaction ==
  /\ processedAt # NullDate =>
       \E i \in 1..Len(transactions) : transactions[i].OrderId = order.id
  /\ confirmedAt # NullDate => processedAt # NullDate
  /\ \A p \in Procs :
       /\ (Finalizing(p) /\ (GatewayRaised(p) \/ Step("transaction", FALSE) \in Range(trace[p]))) =>
            /\ pc[p] = "rejected"
            /\ ~MarkSet(p, "processedAt") /\ ~MarkSet(p, "confirmedAt")
            /\ runs = 1 => (processedAt = NullDate /\ confirmedAt = NullDate)
       /\ MarkSet(p, "processedAt") => created[p] = 1
       /\ MarkSet(p, "confirmedAt") => MarkSet(p, "processedAt")

C17_Witness ==
  /\ runs = 2 /\ Settled
  /\ \E p, q \in Procs :
       /\ Succeeded(p)
       /\ Finalizing(q) /\ Step("transaction", FALSE) \in Range(trace[q])

\* the remote execute request of run p has failed
ExecuteFailed(p) ==
  Finalizing(p) /\ (CredentialFailed(p) \/ TokenFailed(p) \/ GatewayRaised(p))

AddingTwoFactorAuth(p) == op[p] = "addAccountTwoFactorAuth"
EditingSetting(p) == op[p] = "editAccountSetting"

\* C19: the stored 2FA token is that of every addAccountTwoFactorAuth call that has
\* returned, at most one call returns, and a call that found a token stored was
\* rejected as Unauthorized.
C19_TwoFactorTokenNeverOverwritten ==
  /\ \A p \in Procs :
       AddingTwoFactorAuth(p) =>
         /\ pc[p] = "done" => twoFactorAuthToken = req[p].token
         /\ Step("twoFactorAuthToken", FALSE) \in Range(trace[p]) =>
              (pc[p] = "rejected" /\ outcome[p].name = "Unauthorized")
  /\ Cardinality({ p \in Procs : AddingTwoFactorAuth(p) /\ pc[p] = "done" }) <= 1

RECURSIVE ApplyUpdates(_, _)
\* the settings after the given writes, each changing its own key only
ApplyUpdates(settings, log) ==
  IF log = << >> THEN settings
  ELSE LET u == log[1]
           base == IF settings = NullSettings THEN EmptySettings ELSE settings
       IN ApplyUpdates([k \in DOMAIN base \cup {u.key} |->
                          IF k = u.key THEN u.value ELSE base[k]],
                       SubSeq(log, 2, Len(log)))

\* C20: the account's settings are the initial ones with every executed update applied
\* in order to its own key; only admins' calls update; a call holds the row lock from
\* its read to its commit or rollback; a call by nobody or by a member is rejected
\* without an update; two returned calls with different keys, the only calls so far,
\* have both their values stored.
C20_NoLostSettingsUpdate ==
  /\ accountSettings = ApplyUpdates(settingsAtStart, updates)
  /\ \A i \in 1..Len(updates) : updates[i].remoteUser = "admin"
  /\ \A p \in Procs :
       EditingSetting(p) =>
         /\ pc[p] \in {"accountUpdate", "commit", "rollback"} => rowLock = p
         /\ req[p].remoteUser # "admin" =>
              /\ Step("update", TRUE) \notin Range(trace[p])
              /\ pc[p] \in {"fetchAccountForUpdate", "rollback", "rejected"}
              /\ pc[p] = "rejected" =>
                   outcome[p].name =
                     IF req[p].remoteUser = "none" THEN "Unauthorized" ELSE "Forbidden"
              /\ runs = 1 => accountSettings = settingsAtStart
         /\ pc[p] = "done" => Step("update", TRUE) \in Range(trace[p])
  /\ \A p, q \in Procs :
       (runs = 2 /\ p # q /\ EditingSetting(p) /\ EditingSetting(q)
          /\ pc[p] = "done" /\ pc[q] = "done" /\ req[p].key # req[q].key) =>
         /\ req[p].key \in DOMAIN accountSettings
         /\ accountSettings[req[p].key] = req[p].value
         /\ accountSettings[req[q].key] = req[q].value

C20_Witness ==
  /\ runs = 2 /\ Len(updates) = 2
  /\ updates[1].key # updates[2].key
  /\ \A p \in Procs : EditingSetting(p) /\ pc[p] = "done"
  /\ settingsAtStart = NullSettings
  /\ accountSettings = [goal |-> "x", theme |-> "y"]

====
